---------------------------- MODULE Spec2Model ----------------------------
(***************************************************************************)
(* Model of src/app.py, the warehouse SLA dashboard: the temporal          *)
(* resampler get_trend_data and the script body (filter, group summaries,  *)
(* handover and transit modules).                                          *)
(*                                                                         *)
(* Conventions.  A nullable cell is <<>> (null / NaN / NaT) or <<v>>.      *)
(* A timestamp is a number of half days since 2024-01-01 00:00 (a Monday): *)
(* 2*d is midnight of day d and 2*d+1 is noon.  A date is a day number.    *)
(* A float is an exact fraction <<n, d>> in lowest terms, d > 0; NaN is    *)
(* <<0, 0>>.  A boolean column holds 1 (True) and 0 (False), as pandas     *)
(* sums it.                                                                *)
(***************************************************************************)
EXTENDS Integers, Sequences, FiniteSets, TLC

VARIABLES
    df,                 \* the loaded dataset: a sequence of rows
    group_col,          \* widget 1: the grouping column
    date_range,         \* widget 2: <<first, last>>, or <<first>> while picking
    granularity,        \* widget 3: "Day", "Week", "Month"
    sel_ctry,           \* widget 4: the selected countries
    sel_carrier_global, \* widget 5: the selected carriers, {} for all
    sel_targets,        \* widget 6: the selected group values, {} for all
    s1, s2, s3,         \* the trend selectboxes of modules 1-3, NA if untouched
    u1, u2, u3,         \* the US widgets of module 4: warehouse, carriers, states
    changes,            \* widget changes made since the upload
    pc,                 \* the position of the script run
    df_show,            \* the filtered dataset, NA until computed
    shown,              \* the warnings and messages of this run
    stats_ship,         \* module 1: summary and trend, NA until computed
    stats_ol,           \* module 2
    stats_ho,           \* module 3
    otd,                \* module 4
    error,              \* the exception that ended the run, NA if none
    mode,               \* get_trend_data called on its own: the mode
    res                 \* get_trend_data called on its own: the result

widgets == <<group_col, date_range, granularity, sel_ctry, sel_carrier_global,
             sel_targets, s1, s2, s3, u1, u2, u3>>

outputs == <<df_show, shown, stats_ship, stats_ol, stats_ho, otd, error>>

vars == <<df, widgets, changes, pc, outputs, mode, res>>

-----------------------------------------------------------------------------
(* Bounds of the model.                                                    *)

MaxRows == 3

MaxChanges == 2

MaxShowRows == 2

MaxCopies == 3

MaxOutliers == 1

-----------------------------------------------------------------------------
(* Cells.                                                                  *)

NA == <<>>

Some(v) == <<v>>

IsNull(x) == x = <<>>

NotNull(x) == x # <<>>

Get(x) == x[1]

-----------------------------------------------------------------------------
(* Floats as exact fractions.                                              *)

NaN == <<0, 0>>

IsNaN(v) == v[2] = 0

Abs(n) == IF n < 0 THEN -n ELSE n

RECURSIVE GCD(_, _)
GCD(a, b) == IF b = 0 THEN a ELSE GCD(b, a % b)

Frac(n, d) ==
    IF d = 0 THEN NaN
    ELSE LET g == GCD(Abs(n), Abs(d))
             s == IF d < 0 THEN -1 ELSE 1
         IN  <<(s * n) \div g, (s * d) \div g>>

FracAdd(a, b) == Frac(a[1] * b[2] + b[1] * a[2], a[2] * b[2])

FracLeq(a, b) == a[1] * b[2] <= b[1] * a[2]

RECURSIVE SumSeq(_)
SumSeq(s) == IF s = <<>> THEN 0 ELSE Head(s) + SumSeq(Tail(s))

RECURSIVE FracSum(_)
FracSum(s) == IF s = <<>> THEN <<0, 1>> ELSE FracAdd(Head(s), FracSum(Tail(s)))

\* Series.mean() / GroupBy.mean(): the mean of the non-null cells, NaN if none.
MeanOfCells(cells) ==
    LET present == SelectSeq(cells, NotNull)
    IN  Frac(SumSeq([i \in 1..Len(present) |-> Get(present[i])]), Len(present))

\* Series.count(): the number of non-null cells.
CountOfCells(cells) == Len(SelectSeq(cells, NotNull))

\* Series.sum(): the sum of the non-null cells, 0 if none.
SumOfCells(cells) ==
    LET present == SelectSeq(cells, NotNull)
    IN  SumSeq([i \in 1..Len(present) |-> Get(present[i])])

Column(rows, col) == [i \in 1..Len(rows) |-> rows[i][col]]

-----------------------------------------------------------------------------
(* Calendar: day 0 is Monday 2024-01-01.                                   *)

MonthLen == <<31, 29, 31, 30, 31, 30, 31, 31, 30, 31, 30, 31>>

\* Timestamp.date() / .normalize()
DateOf(ts) == ts \div 2

\* date.weekday(): 0 is Monday
Weekday(d) == d % 7

RECURSIVE MonthStartFrom(_, _, _)
MonthStartFrom(d, m, start) ==
    IF m = 12 \/ d < start + MonthLen[m] THEN <<m, start>>
    ELSE MonthStartFrom(d, m + 1, start + MonthLen[m])

\* the month (1..12) of day d
MonthOf(d) == MonthStartFrom(d, 1, 0)[1]

\* the first day of the month of day d
MonthStart(d) == MonthStartFrom(d, 1, 0)[2]

\* strftime('%Y-%m')
YearMonth(d) == <<2024, MonthOf(d)>>

-----------------------------------------------------------------------------
(* get_trend_data (src/app.py 43-67).                                      *)

\* line 45: the resample rule and the axis format of a granularity
RuleOf(g) ==
    IF g = "Week" THEN <<"W-MON", "%m-%d">>
    ELSE IF g = "Month" THEN <<"MS", "%Y-%m">>
    ELSE <<"D", "%m-%d">>

\* The label of the bin that holds timestamp ts.  'D' and 'MS' bins are closed
\* and labelled on the left.  'W-MON' is the week that ENDS on a Monday: its bins
\* are closed and labelled on the right, and pandas moves the right edge to the
\* end of that Monday, so the bin labelled Monday M holds M-6 (Tuesday) .. M.
BinLabel(rule, ts) ==
    LET d == DateOf(ts)
    IN  IF rule = "W-MON" THEN d + ((7 - Weekday(d)) % 7)
        ELSE IF rule = "MS" THEN MonthStart(d)
        ELSE d

\* the label that follows label l in the rule's date_range
NextLabel(rule, l) ==
    IF rule = "W-MON" THEN l + 7
    ELSE IF rule = "MS" THEN l + MonthLen[MonthOf(l)]
    ELSE l + 1

\* whether timestamp ts falls in the bin labelled l
InBin(rule, l, ts) ==
    IF rule = "W-MON" THEN 2 * (l - 7 + 1) <= ts /\ ts < 2 * (l + 1)
    ELSE 2 * l <= ts /\ ts < 2 * NextLabel(rule, l)

RECURSIVE LabelRange(_, _, _)
LabelRange(rule, a, b) ==
    IF a > b THEN <<>> ELSE <<a>> \o LabelRange(rule, NextLabel(rule, a), b)

RECURSIVE MinSeq(_)
MinSeq(s) ==
    IF Len(s) = 1 THEN s[1]
    ELSE LET m == MinSeq(Tail(s)) IN IF s[1] < m THEN s[1] ELSE m

RECURSIVE MaxSeq(_)
MaxSeq(s) ==
    IF Len(s) = 1 THEN s[1]
    ELSE LET m == MaxSeq(Tail(s)) IN IF s[1] > m THEN s[1] ELSE m

\* df.set_index(date_col).resample(rule): every bin of the rule from the one of
\* the earliest timestamp to the one of the latest, EMPTY BINS INCLUDED, each
\* with the rows that fall in it.  The callers pass rows whose date_col is set.
Resample(rows, date_col, rule) ==
    IF rows = <<>> THEN <<>>
    ELSE LET ts     == [i \in 1..Len(rows) |-> Get(rows[i][date_col])]
             labels == LabelRange(rule, BinLabel(rule, MinSeq(ts)),
                                        BinLabel(rule, MaxSeq(ts)))
             In(l)  == LET Hit(r) == InBin(rule, l, Get(r[date_col]))
                       IN  SelectSeq(rows, Hit)
         IN  [k \in 1..Len(labels) |-> [Date |-> labels[k], rows |-> In(labels[k])]]

\* line 48: resample(rule).agg({metric_col: 'sum', 'Order_ID': 'count'})
AggRate(bins, metric_col) ==
    [k \in 1..Len(bins) |->
        [Date     |-> bins[k].Date,
         metric   |-> SumOfCells(Column(bins[k].rows, metric_col)),
         Order_ID |-> CountOfCells(Column(bins[k].rows, "Order_ID"))]]

\* KeepCounted without the filter
KeepCounted_All(aggs) == aggs

\* line 49: res[res['Order_ID'] > 0]
KeepCounted(aggs) ==
    LET Counted(a) == a.Order_ID > 0
    IN  SelectSeq(aggs, Counted)

\* line 50: res['Value'] = res[metric_col] / res['Order_ID']
WithValue(aggs) ==
    [k \in 1..Len(aggs) |->
        aggs[k] @@ [Value |-> Frac(aggs[k].metric, aggs[k].Order_ID)]]

\* line 52: resample(rule)[metric_col].mean().to_frame(name='Value')
AggMean(bins, metric_col) ==
    [k \in 1..Len(bins) |->
        [Date  |-> bins[k].Date,
         Value |-> MeanOfCells(Column(bins[k].rows, metric_col))]]

\* ResetIndex with an index that starts at 1
ResetIndex_FromOne(rows) == [k \in 1..Len(rows) |-> rows[k] @@ [index |-> k]]

\* line 54: reset_index(): the rows get the index 0, 1, ..
ResetIndex(rows) == [k \in 1..Len(rows) |-> rows[k] @@ [index |-> k - 1]]

RECURSIVE InsertByDate(_, _)
InsertByDate(sorted, r) ==
    IF sorted = <<>> THEN <<r>>
    ELSE IF sorted[Len(sorted)].Date <= r.Date THEN Append(sorted, r)
    ELSE Append(InsertByDate(SubSeq(sorted, 1, Len(sorted) - 1), r),
                sorted[Len(sorted)])

RECURSIVE SortByDate(_)
\* line 54: sort_values('Date'), a stable ascending sort
SortByDate(rows) ==
    IF rows = <<>> THEN <<>>
    ELSE InsertByDate(SortByDate(SubSeq(rows, 1, Len(rows) - 1)), rows[Len(rows)])

\* round(n / d) to the nearest integer, ties to even, as float formatting does
RoundHalfEven(n, d) ==
    LET q == n \div d
        r == n % d
    IN  IF 2 * r < d THEN q
        ELSE IF 2 * r > d THEN q + 1
        ELSE IF q % 2 = 0 THEN q ELSE q + 1

\* line 56: f"{val:.1%}" in rate mode, f"{val:.1f}h" otherwise; the number is
\* kept in tenths (of a percent, of an hour); NaN prints as "nan"
fmt_val(val, m) ==
    [unit   |-> IF m = "rate" THEN "%" ELSE "h",
     nan    |-> IsNaN(val),
     tenths |-> IF IsNaN(val) THEN 0
                ELSE IF m = "rate" THEN RoundHalfEven(1000 * val[1], val[2])
                ELSE RoundHalfEven(10 * val[1], val[2])]

\* line 59: "WEEK" + pd.Series(range(1, len(res)+1)).astype(str) + "\n" + ..
\* The ordinal series has the index 0..len-1 and pandas adds the two series BY
\* INDEX: the row whose index is j gets the ordinal j+1, a row whose index is
\* not in 0..len-1 gets NaN.
WeekLabel(row, n, m) ==
    IF row.index \in 0..(n - 1)
    THEN [head |-> <<"WEEK", row.index + 1>>, value |-> fmt_val(row.Value, m)]
    ELSE [head |-> <<"NaN", 0>>, value |-> fmt_val(NaN, m)]

\* line 62: res['Date'].dt.strftime('%Y-%m') + "\n" + res['Value'].apply(fmt_val)
MonthLabel(row, m) ==
    [head |-> YearMonth(row.Date), value |-> fmt_val(row.Value, m)]

Window == 7

MinPeriods == 1

\* line 66: rolling(window=7, min_periods=1).mean() at row i: the mean of the
\* non-NaN values among the last 7 rows, NaN when fewer than min_periods are
RollingMean(rows, i) ==
    LET lo      == IF i - Window + 1 < 1 THEN 1 ELSE i - Window + 1
        vals    == [k \in 1..(i - lo + 1) |-> rows[lo + k - 1].Value]
        NotNaN(v) == ~IsNaN(v)
        present == SelectSeq(vals, NotNaN)
        total   == FracSum(present)
    IN  IF Len(present) < MinPeriods THEN NaN
        ELSE Frac(total[1], total[2] * Len(present))

\* lines 58-66: the Data_Label and Trend columns
Annotate(rows, g, m) ==
    [i \in 1..Len(rows) |->
        rows[i] @@
        (IF g = "Week"
         THEN [Data_Label |-> WeekLabel(rows[i], Len(rows), m),
               Trend      |-> rows[i].Value]
         ELSE IF g = "Month"
         THEN [Data_Label |-> MonthLabel(rows[i], m),
               Trend      |-> rows[i].Value]
         ELSE [Data_Label |-> "",
               Trend      |-> RollingMean(rows, i)])]

\* lines 47-52: the aggregation of the bins by mode
Aggregate(bins, metric_col, m) ==
    IF m = "rate" THEN WithValue(KeepCounted(AggRate(bins, metric_col)))
    ELSE AggMean(bins, metric_col)

\* lines 43-67
get_trend_data(rows, date_col, metric_col, g, m) ==
    LET rule == RuleOf(g)[1]
        agg  == Aggregate(Resample(rows, date_col, rule), metric_col, m)
    IN  [res |-> Annotate(SortByDate(ResetIndex(agg)), g, m),
         fmt |-> RuleOf(g)[2]]

-----------------------------------------------------------------------------
(* load_data (src/app.py 11-27) and the datasets of the model.  A name is   *)
(* the sequence of its parts between '-': "A-1" is <<"A", "1">>.           *)

\* line 23: x.split('-')[0] if '-' in x else x
ProviderOf(warehouse) == <<warehouse[1]>>

\* lines 21-23: the Provider column
load_data(raw) ==
    [i \in 1..Len(raw) |->
        raw[i] @@ [Provider |-> Some(ProviderOf(Get(raw[i].Warehouse)))]]

\* a row of the uploaded file with every column set
BaseRow ==
    [Order_ID       |-> Some(1),
     Time_Audit     |-> Some(0),
     Time_Shipped   |-> Some(0),
     Warehouse      |-> Some(<<"A", "1">>),
     Country        |-> Some(<<"US">>),
     Carrier        |-> Some(<<"FedEx">>),
     Province_State |-> Some(<<"CA">>),
     is_24h_Ship    |-> Some(1),
     is_48h_Online  |-> Some(1),
     Hours_Handover |-> Some(5),
     Days_Transit   |-> Some(3)]

\* row r with the columns of record f replaced
With(r, f) == f @@ r

\* all sequences over S of length lo..hi
SeqsOf(S, lo, hi) == UNION {[1..n -> S] : n \in lo..hi}

-----------------------------------------------------------------------------
(* get_trend_data on its own, over a bounded family of record sets.        *)

\* Mon 01-01 00:00, Tue 01-02 12:00, Mon 01-08 12:00, Wed 01-17 00:00,
\* Thu 02-01 00:00, Fri 03-01 12:00
TrendTimes == {0, 3, 15, 32, 62, 121}

Granularities == {"Day", "Week", "Month"}

\* Rate mode is called on df_show[group == tgt] (lines 138, 151): any boolean
\* or null metric.  Mean mode is called on valid_ho (line 167): durations > 0.
TrendMetrics(m) == IF m = "rate" THEN {NA, Some(0), Some(1)} ELSE {Some(2), Some(5)}

TrendOrders(m) == IF m = "rate" THEN {NA, Some(1)} ELSE {Some(1)}

\* the columns the callers pass: lines 138 and 151 (rate), line 167 (mean)
DateCol(m) == IF m = "rate" THEN "Time_Audit" ELSE "Time_Shipped"

MetricCol(m) == IF m = "rate" THEN "is_24h_Ship" ELSE "Hours_Handover"

TrendRows(m) ==
    {With(BaseRow, [Order_ID |-> o, Time_Audit |-> Some(t), Time_Shipped |-> Some(t),
                    is_24h_Ship |-> IF m = "rate" THEN v ELSE Some(0),
                    Hours_Handover |-> IF m = "rate" THEN NA ELSE v]) :
        o \in TrendOrders(m), t \in TrendTimes, v \in TrendMetrics(m)}

Idle ==
    /\ group_col = "Warehouse"
    /\ date_range = <<0, 0>>
    /\ sel_ctry = {}
    /\ sel_carrier_global = {}
    /\ sel_targets = {}
    /\ s1 = NA /\ s2 = NA /\ s3 = NA
    /\ u1 = <<"ALL">> /\ u2 = {} /\ u3 = {}
    /\ changes = 0
    /\ df_show = NA
    /\ shown = <<>>
    /\ stats_ship = NA
    /\ stats_ol = NA
    /\ stats_ho = NA
    /\ otd = NA
    /\ error = NA

TrendInit ==
    /\ mode \in {"rate", "mean"}
    /\ granularity \in Granularities
    /\ df \in {load_data(raw) : raw \in SeqsOf(TrendRows(mode), 0, MaxRows)}
    /\ res = NA
    /\ pc = "call"
    /\ Idle

TrendCall ==
    /\ pc = "call"
    /\ res' = Some(get_trend_data(df, DateCol(mode), MetricCol(mode), granularity, mode).res)
    /\ pc' = "returned"
    /\ UNCHANGED <<df, widgets, changes, outputs, mode>>

TrendNext == TrendCall

SpecTrend == TrendInit /\ [][TrendNext]_vars

-----------------------------------------------------------------------------
(* The script body (src/app.py 92-228): one run per widget change.         *)

\* the names of the model in sorted() order, per column
KeyOrder(col) ==
    IF col = "Warehouse" THEN <<<<"A", "1">>, <<"A", "2">>, <<"B">>>>
    ELSE IF col = "Provider" THEN <<<<"A">>, <<"B">>>>
    ELSE IF col = "Carrier" THEN <<<<"FedEx">>, <<"UPS">>>>
    ELSE IF col = "Country" THEN <<<<"DE">>, <<"US">>>>
    ELSE <<<<"CA">>, <<"TX">>>>

\* Series.dropna().unique(): the distinct non-null values of a column
Unique(rows, col) == {Get(rows[i][col]) : i \in {j \in 1..Len(rows) : NotNull(rows[j][col])}}

\* sorted(...) of a set of names of one column
Sorted(S, col) ==
    LET In(k) == k \in S
    IN  SelectSeq(KeyOrder(col), In)

\* line 102: the dates of the first and of the last audit
AuditDates(rows) == {DateOf(Get(rows[i].Time_Audit)) : i \in 1..Len(rows)}

MinDate(rows) == CHOOSE d \in AuditDates(rows) : \A e \in AuditDates(rows) : d <= e

MaxDate(rows) == CHOOSE d \in AuditDates(rows) : \A e \in AuditDates(rows) : d >= e

\* lines 119-120: the row mask of the date, country and carrier filters
Mask(r, range, ctry, carriers) ==
    /\ DateOf(Get(r.Time_Audit)) >= range[1]
    /\ DateOf(Get(r.Time_Audit)) <= range[2]
    /\ Get(r.Country) \in ctry
    /\ carriers # {} => (NotNull(r.Carrier) /\ Get(r.Carrier) \in carriers)

\* lines 121-122: df[mask], then the target selection on the group column
FilterRows(rows, col, range, ctry, carriers, targets) ==
    LET Keep(r) == /\ Mask(r, range, ctry, carriers)
                   /\ targets # {} => (NotNull(r[col]) /\ Get(r[col]) \in targets)
    IN  SelectSeq(rows, Keep)

\* df[df[col] == key]
RowsOf(rows, col, key) ==
    LET Is(r) == NotNull(r[col]) /\ Get(r[col]) = key
    IN  SelectSeq(rows, Is)

\* GroupKeys over the whole upload, as groupby of a categorical column gives
GroupKeys_OfUpload(rows, col) == Sorted(Unique(df, col), col)

\* groupby(col): the distinct non-null keys of the rows, sorted (a null key is
\* dropped, a key without a row does not appear)
GroupKeys(rows, col) == Sorted(Unique(rows, col), col)

\* lines 132, 145: f"{x:.1%}" + " | " + str(Count)
RateLabel(rate, count) == [value |-> fmt_val(rate, "rate"), count |-> count]

\* GroupRate with the Count of the compliant records only
GroupRate_CountCompliant(rows, col, metric) ==
    LET keys == Sorted(Unique(rows, col), col)
    IN  [k \in 1..Len(keys) |->
           LET cells == Column(RowsOf(rows, col, keys[k]), metric)
           IN  [group |-> keys[k],
                Rate  |-> MeanOfCells(cells),
                Count |-> SumOfCells(cells),
                Label |-> RateLabel(MeanOfCells(cells), SumOfCells(cells))]]

\* lines 131, 144: groupby(group_col).agg(Rate=(metric, 'mean'), Count=(metric, 'count'))
GroupRate(rows, col, metric) ==
    LET keys == GroupKeys(rows, col)
    IN  [k \in 1..Len(keys) |->
           LET cells == Column(RowsOf(rows, col, keys[k]), metric)
           IN  [group |-> keys[k],
                Rate  |-> MeanOfCells(cells),
                Count |-> CountOfCells(cells),
                Label |-> RateLabel(MeanOfCells(cells), CountOfCells(cells))]]

\* lines 160-161: the handover summary, Label f"{x:.1f}h" + " | " + str(Count)
GroupHours(rows, col, metric) ==
    LET keys == GroupKeys(rows, col)
    IN  [k \in 1..Len(keys) |->
           LET cells == Column(RowsOf(rows, col, keys[k]), metric)
           IN  [group |-> keys[k],
                Val   |-> MeanOfCells(cells),
                Count |-> CountOfCells(cells),
                Label |-> [value |-> fmt_val(MeanOfCells(cells), "mean"),
                           count |-> CountOfCells(cells)]]]

\* sort_values(col, ascending): the rows by their value in col, NaN last, rows
\* of equal value in their order
SortByScore(rows, col, ascending) ==
    LET n            == Len(rows)
        Before(a, b) == /\ ~IsNaN(a[col])
                        /\ \/ IsNaN(b[col])
                           \/ IF ascending THEN ~FracLeq(b[col], a[col])
                              ELSE ~FracLeq(a[col], b[col])
        Rank(i)      == Cardinality({j \in 1..n : \/ Before(rows[j], rows[i])
                                                  \/ (~Before(rows[i], rows[j]) /\ j < i)}) + 1
    IN  [k \in 1..n |-> rows[CHOOSE i \in 1..n : Rank(i) = k]]

\* lines 136, 149: the options of the trend selectbox, stats.sort_values('Rate')
WorstRateFirst(stats) == SortByScore(stats, "Rate", TRUE)

\* line 165: stats_ho.sort_values('Val', ascending=False)
SlowestFirst(stats) == SortByScore(stats, "Val", FALSE)

\* st.selectbox: the stored pick while it is among the options, else the first
\* option, None without options
Picked(options, stored) ==
    IF options = <<>> THEN NA
    ELSE IF \E k \in 1..Len(options) : Some(options[k].group) = stored THEN stored
    ELSE Some(options[1].group)

\* lines 137-138: the trend of the picked group, NA when nothing is picked
TrendOf(rows, col, tgt, date_col, metric, g, m) ==
    IF IsNull(tgt) THEN NA
    ELSE Some(get_trend_data(RowsOf(rows, col, Get(tgt)), date_col, metric, g, m))

\* line 157: df_show[df_show['Hours_Handover'] > 0]
valid_ho(rows) ==
    LET Positive(r) == NotNull(r.Hours_Handover) /\ Get(r.Hours_Handover) > 0
    IN  SelectSeq(rows, Positive)

TransitMin == 0

TransitMax == 30

\* valid_otd without the upper bound
valid_otd_NoUpper(rows) ==
    LET Valid(r) == NotNull(r.Days_Transit) /\ Get(r.Days_Transit) >= TransitMin
    IN  SelectSeq(rows, Valid)

\* lines 175-177: the rows with a Days_Transit in [0, 30]
valid_otd(rows) ==
    LET Valid(r) == /\ NotNull(r.Days_Transit)
                    /\ Get(r.Days_Transit) >= TransitMin
                    /\ Get(r.Days_Transit) <= TransitMax
    IN  SelectSeq(rows, Valid)

\* lines 192, 197, 225: f"{x:.1f}d"
DaysLabel(val) ==
    [unit |-> "d", nan |-> IsNaN(val),
     tenths |-> IF IsNaN(val) THEN 0 ELSE RoundHalfEven(10 * val[1], val[2])]

\* lines 190, 195, 224: groupby(col).agg(Val=('Days_Transit', 'mean'),
\* Count=('Order_ID', 'count'))
GroupDays(rows, col) ==
    LET keys == GroupKeys(rows, col)
    IN  [k \in 1..Len(keys) |->
           [group |-> keys[k],
            Val   |-> MeanOfCells(Column(RowsOf(rows, col, keys[k]), "Days_Transit")),
            Count |-> CountOfCells(Column(RowsOf(rows, col, keys[k]), "Order_ID"))]]

WithDaysLabel(stats) ==
    [k \in 1..Len(stats) |-> stats[k] @@ [Label |-> DaysLabel(stats[k].Val)]]

RECURSIVE InsertByVal(_, _)
InsertByVal(sorted, r) ==
    IF sorted = <<>> THEN <<r>>
    ELSE IF FracLeq(sorted[Len(sorted)].Val, r.Val) THEN Append(sorted, r)
    ELSE Append(InsertByVal(SubSeq(sorted, 1, Len(sorted) - 1), r),
                sorted[Len(sorted)])

RECURSIVE SortByVal(_)
\* sort_values('Val')
SortByVal(rows) ==
    IF rows = <<>> THEN <<>>
    ELSE InsertByVal(SortByVal(SubSeq(rows, 1, Len(rows) - 1)), rows[Len(rows)])

MinOrders == 5

TopRows == 15

\* lines 191-192, 196-197: the groups with more than 5 orders, the 15 with the
\* shortest transit
TopDays(rows, col) ==
    LET Enough(g) == g.Count > MinOrders
        kept      == SortByVal(SelectSeq(GroupDays(rows, col), Enough))
    IN  WithDaysLabel(SubSeq(kept, 1, IF Len(kept) < TopRows THEN Len(kept) ELSE TopRows))

MinCell == 5

\* lines 215-216: groupby(['Carrier', 'Province_State']), the cells with at
\* least 5 orders
HeatMap(rows) ==
    LET carriers == GroupKeys(rows, "Carrier")
        states   == GroupKeys(rows, "Province_State")
        pairs    == [k \in 1..(Len(carriers) * Len(states)) |->
                       <<carriers[((k - 1) \div Len(states)) + 1],
                         states[((k - 1) % Len(states)) + 1]>>]
        Cell(pr) == RowsOf(RowsOf(rows, "Carrier", pr[1]), "Province_State", pr[2])
        Present(pr) == Cell(pr) # <<>>
        present  == SelectSeq(pairs, Present)
        cells    == [k \in 1..Len(present) |->
                       [group |-> present[k],
                        Val   |-> MeanOfCells(Column(Cell(present[k]), "Days_Transit")),
                        C     |-> CountOfCells(Column(Cell(present[k]), "Order_ID"))]]
        Enough(c) == c.C >= MinCell
    IN  SelectSeq(cells, Enough)

\* lines 224-225
CarrierCompare(rows) == WithDaysLabel(GroupDays(rows, "Carrier"))

\* lines 208-211: the US selection; sel_wh is <<"ALL">> for every warehouse
FilterUS(rows, sel_wh, sel_car, sel_st) ==
    LET Keep(r) ==
          /\ sel_wh # <<"ALL">> => Get(r.Warehouse) = sel_wh
          /\ sel_car # {} => (NotNull(r.Carrier) /\ Get(r.Carrier) \in sel_car)
          /\ sel_st # {} => (NotNull(r.Province_State) /\ Get(r.Province_State) \in sel_st)
    IN  SelectSeq(rows, Keep)

\* line 184
is_us_mode(rows, ctry) ==
    \/ ctry = {<<"US">>}
    \/ Unique(rows, "Country") = {<<"US">>}

\* line 205: sorted(valid_otd['Carrier'].unique()) compares a null with a name
\* and raises TypeError when the column holds a null and anything else
SortRaises(rows, col) ==
    LET cells == {rows[i][col] : i \in 1..Len(rows)}
    IN  NA \in cells /\ Cardinality(cells) > 1

HasColumn(rows, col) == col \in DOMAIN rows[1]

NoTransit ==
    [view |-> "none", sel_wh |-> <<>>, sel_car |-> {}, sel_st |-> {},
     s_wh |-> <<>>, s_car |-> <<>>, s_map |-> <<>>, s_cmp |-> <<>>]

\* lines 174-228: module 4 on the filtered rows with the US widgets' values;
\* the messages it shows, its tables, the exception it ends with
Transit(rows, ctry, sel_wh, sel_car, sel_st) ==
    LET valid == valid_otd(rows)
        quiet == [shown |-> <<>>, otd |-> NA, error |-> NA]
    IN  IF ~HasColumn(df, "Days_Transit")
        THEN [quiet EXCEPT !.shown = <<"info: no Days_Transit column">>]
        ELSE IF valid = <<>>
        THEN [quiet EXCEPT !.shown = <<"warning: no valid transit data">>]
        ELSE IF ~is_us_mode(valid, ctry)
        THEN [quiet EXCEPT !.otd = Some([NoTransit EXCEPT
                                           !.view  = "global",
                                           !.s_wh  = TopDays(valid, "Warehouse"),
                                           !.s_car = TopDays(valid, "Carrier")])]
        ELSE IF ~HasColumn(df, "Province_State")
        THEN [quiet EXCEPT !.shown = <<"error: no Province_State column">>]
        ELSE IF SortRaises(valid, "Carrier")
        THEN [quiet EXCEPT !.error = Some("TypeError")]
        ELSE LET df_u == FilterUS(valid, sel_wh, sel_car, sel_st)
                 sel  == [NoTransit EXCEPT !.sel_wh = sel_wh, !.sel_car = sel_car,
                                           !.sel_st = sel_st]
             IN  IF sel_st = {}
                 THEN [quiet EXCEPT !.otd = Some([sel EXCEPT !.view = "map",
                                                             !.s_map = HeatMap(df_u)])]
                 ELSE [quiet EXCEPT !.otd = Some([sel EXCEPT !.view = "cmp",
                                                             !.s_cmp = CarrierCompare(df_u)])]

\* AfterFilter without st.stop()
AfterFilter_NoStop(rows) == "m1"

\* lines 124-126: an empty selection warns and stops the run
AfterFilter(rows) == IF rows = <<>> THEN "stopped" ELSE "m1"

\* line 103: a date_input range is <<first>> while the user picks, then
\* <<first, last>>
DateRanges(rows) ==
    {<<a>> : a \in AuditDates(rows)} \cup
    {r \in AuditDates(rows) \X AuditDates(rows) : r[1] <= r[2]}

\* the state of the widgets after the upload (lines 97-116, 136, 204-206)
Uploaded(raw) ==
    /\ df = load_data(raw)
    /\ group_col = "Warehouse"
    /\ date_range = <<MinDate(raw), MaxDate(raw)>>
    /\ granularity = "Day"
    /\ sel_ctry = Unique(raw, "Country")
    /\ sel_carrier_global = {}
    /\ sel_targets = {}
    /\ s1 = NA /\ s2 = NA /\ s3 = NA
    /\ u1 = <<"ALL">> /\ u2 = {} /\ u3 = {}
    /\ changes = 0
    /\ pc = "filter"
    /\ df_show = NA
    /\ shown = <<>>
    /\ stats_ship = NA
    /\ stats_ol = NA
    /\ stats_ho = NA
    /\ otd = NA
    /\ error = NA
    /\ mode = "rate"
    /\ res = NA

Widgets ==
    [group_col |-> group_col, date_range |-> date_range, granularity |-> granularity,
     sel_ctry |-> sel_ctry, sel_carrier_global |-> sel_carrier_global,
     sel_targets |-> sel_targets, s1 |-> s1, s2 |-> s2, s3 |-> s3,
     u1 |-> u1, u2 |-> u2, u3 |-> u3]

\* the groups a trend selectbox of the page offers
Offered(stats) ==
    IF stats = NA THEN {} ELSE {Some(Get(stats).stats[k].group) : k \in 1..Len(Get(stats).stats)}

\* the group a trend selectbox of the page shows as picked
Pick(stats) == IF stats = NA THEN NA ELSE Get(stats).tgt

\* whether the page shows the US widgets (lines 204-206)
ShowsUS == otd # NA /\ Get(otd).view \in {"map", "cmp"}

\* The widget states one user action leads to: one widget gets another of its
\* values.  The widgets labelled with the group column (6 and the trend
\* selectboxes, lines 116, 136, 149, 165) are new widgets under another group
\* column.  The options are those the page shows (lines 99-116, 204-206).
WidgetChanges ==
    LET w     == Widgets
        valid == IF ShowsUS THEN valid_otd(Get(df_show)) ELSE <<>>
    IN  {[w EXCEPT !.group_col = v, !.sel_targets = {}, !.s1 = NA, !.s2 = NA, !.s3 = NA] :
            v \in {"Warehouse", "Provider", "Carrier"} \ {group_col}}
        \cup {[w EXCEPT !.date_range = r] : r \in DateRanges(df) \ {date_range}}
        \cup {[w EXCEPT !.granularity = g] : g \in Granularities \ {granularity}}
        \cup {[w EXCEPT !.sel_ctry = S] : S \in (SUBSET Unique(df, "Country")) \ {sel_ctry}}
        \cup {[w EXCEPT !.sel_carrier_global = S] :
                 S \in (SUBSET Unique(df, "Carrier")) \ {sel_carrier_global}}
        \cup {[w EXCEPT !.sel_targets = S] :
                 S \in (SUBSET Unique(df, group_col)) \ {sel_targets}}
        \cup {[w EXCEPT !.s1 = t] : t \in Offered(stats_ship) \ {Pick(stats_ship)}}
        \cup {[w EXCEPT !.s2 = t] : t \in Offered(stats_ol) \ {Pick(stats_ol)}}
        \cup {[w EXCEPT !.s3 = t] : t \in Offered(stats_ho) \ {Pick(stats_ho)}}
        \cup {[w EXCEPT !.u1 = x] : x \in ({<<"ALL">>} \cup Unique(valid, "Warehouse")) \ {u1}}
        \cup {[w EXCEPT !.u2 = S] : S \in (SUBSET Unique(valid, "Carrier")) \ {u2}}
        \cup {[w EXCEPT !.u3 = S] : S \in (SUBSET Unique(valid, "Province_State")) \ {u3}}

\* A user action on the page a run has left: the widget takes its new value
\* and the script reruns from the top, the page of the last run gone.
Interact ==
    /\ pc \in {"done", "stopped", "error"}
    /\ changes < MaxChanges
    /\ \E w \in WidgetChanges :
          /\ group_col' = w.group_col
          /\ date_range' = w.date_range
          /\ granularity' = w.granularity
          /\ sel_ctry' = w.sel_ctry
          /\ sel_carrier_global' = w.sel_carrier_global
          /\ sel_targets' = w.sel_targets
          /\ s1' = w.s1 /\ s2' = w.s2 /\ s3' = w.s3
          /\ u1' = w.u1 /\ u2' = w.u2 /\ u3' = w.u3
    /\ changes' = changes + 1
    /\ pc' = "filter"
    /\ df_show' = NA
    /\ shown' = <<>>
    /\ stats_ship' = NA
    /\ stats_ol' = NA
    /\ stats_ho' = NA
    /\ otd' = NA
    /\ error' = NA
    /\ UNCHANGED <<df, mode, res>>

\* lines 119-126: date_range[1] raises IndexError on a half-picked range
Filter ==
    /\ pc = "filter"
    /\ IF Len(date_range) < 2
       THEN /\ error' = Some("IndexError")
            /\ pc' = "error"
            /\ UNCHANGED <<df_show, shown>>
       ELSE LET rows == FilterRows(df, group_col, date_range, sel_ctry,
                                   sel_carrier_global, sel_targets)
            IN  /\ df_show' = Some(rows)
                /\ pc' = AfterFilter(rows)
                /\ shown' = IF AfterFilter(rows) = "stopped"
                            THEN Append(shown, "warning: no data") ELSE shown
                /\ UNCHANGED error
    /\ UNCHANGED <<df, widgets, changes, stats_ship, stats_ol, stats_ho, otd, mode, res>>

\* lines 131-138: the summary, the picked group and its trend
RateModule(rows, col, metric, stored, g) ==
    LET stats == GroupRate(rows, col, metric)
        tgt   == Picked(WorstRateFirst(stats), stored)
    IN  [stats |-> stats, tgt |-> tgt,
         trend |-> TrendOf(rows, col, tgt, "Time_Audit", metric, g, "rate")]

\* lines 130-139
Module1 ==
    /\ pc = "m1"
    /\ stats_ship' = Some(RateModule(Get(df_show), group_col, "is_24h_Ship", s1,
                                     granularity))
    /\ pc' = "m2"
    /\ UNCHANGED <<df, widgets, changes, df_show, shown, stats_ol, stats_ho, otd,
                   error, mode, res>>

\* lines 143-152
Module2 ==
    /\ pc = "m2"
    /\ stats_ol' = Some(RateModule(Get(df_show), group_col, "is_48h_Online", s2,
                                   granularity))
    /\ pc' = "m3"
    /\ UNCHANGED <<df, widgets, changes, df_show, shown, stats_ship, stats_ho, otd,
                   error, mode, res>>

\* lines 160-167: the handover summary of the valid rows
HoursModule(valid, col, stored, g) ==
    LET stats == GroupHours(valid, col, "Hours_Handover")
        tgt   == Picked(SlowestFirst(stats), stored)
    IN  [stats |-> stats, tgt |-> tgt,
         trend |-> TrendOf(valid, col, tgt, "Time_Shipped", "Hours_Handover", g, "mean")]

\* lines 156-168
Module3 ==
    /\ pc = "m3"
    /\ LET valid == valid_ho(Get(df_show))
       IN  IF valid = <<>>
           THEN /\ shown' = Append(shown, "warning: no handover data")
                /\ UNCHANGED stats_ho
           ELSE /\ stats_ho' = Some(HoursModule(valid, group_col, s3, granularity))
                /\ UNCHANGED shown
    /\ pc' = "m4"
    /\ UNCHANGED <<df, widgets, changes, df_show, stats_ship, stats_ol, otd, error,
                   mode, res>>

\* lines 172-228; a US widget keeps its stored value while the options hold it
Module4 ==
    /\ pc = "m4"
    /\ LET valid   == valid_otd(Get(df_show))
           sel_wh  == IF u1 \in Unique(valid, "Warehouse") THEN u1 ELSE <<"ALL">>
           sel_car == IF u2 \subseteq Unique(valid, "Carrier") THEN u2 ELSE {}
           sel_st  == IF u3 \subseteq Unique(valid, "Province_State") THEN u3 ELSE {}
           out     == Transit(Get(df_show), sel_ctry, sel_wh, sel_car, sel_st)
       IN  /\ shown' = shown \o out.shown
           /\ otd' = out.otd
           /\ error' = out.error
           /\ pc' = IF out.error = NA THEN "done" ELSE "error"
    /\ UNCHANGED <<df, widgets, changes, df_show, stats_ship, stats_ol, stats_ho,
                   mode, res>>

Next ==
    \/ Interact
    \/ Filter
    \/ Module1
    \/ Module2
    \/ Module3
    \/ Module4

-----------------------------------------------------------------------------
(* The uploads of the model.  The script runs on a non-empty dataset only   *)
(* (line 94).                                                              *)

\* uploads that differ in group, country, carrier and audit date
GroupRows ==
    {With(BaseRow, [Warehouse |-> Some(w), Country |-> Some(c), Carrier |-> k,
                    Time_Audit |-> Some(t)]) :
        w \in {<<"A", "1">>, <<"B">>}, c \in {<<"US">>, <<"DE">>},
        k \in {NA, Some(<<"FedEx">>), Some(<<"UPS">>)}, t \in {0, 15}}

Init == \E raw \in SeqsOf(GroupRows, 1, MaxShowRows) : Uploaded(raw)

Spec == Init /\ [][Next]_vars

\* uploads that differ in group, country and the two compliance flags, each
\* flag true, false or missing
RateRows ==
    {With(BaseRow, [Warehouse |-> Some(w), Country |-> Some(c),
                    is_24h_Ship |-> f[1], is_48h_Online |-> f[2]]) :
        w \in {<<"A", "1">>, <<"A", "2">>, <<"B">>}, c \in {<<"US">>, <<"DE">>},
        f \in {<<NA, Some(1)>>, <<Some(0), NA>>, <<Some(1), Some(0)>>}}

RateInit == \E raw \in SeqsOf(RateRows, 1, MaxShowRows) : Uploaded(raw)

SpecRate == RateInit /\ [][Next]_vars

\* uploads that differ in country, audit date, handover hours and transit
\* days, with or without the Days_Transit column
NoDataRows ==
    {With(BaseRow, [Country |-> Some(c), Time_Audit |-> Some(t), Hours_Handover |-> h,
                    Days_Transit |-> d]) :
        c \in {<<"US">>, <<"DE">>}, t \in {0, 15}, h \in {NA, Some(0), Some(5)},
        d \in {NA, Some(35), Some(10)}}

WithoutColumn(r, col) == [c \in DOMAIN r \ {col} |-> r[c]]

NoDataInit ==
    \E raw \in SeqsOf(NoDataRows, 1, MaxShowRows) :
        \/ Uploaded(raw)
        \/ Uploaded([i \in 1..Len(raw) |-> WithoutColumn(raw[i], "Days_Transit")])

SpecNoData == NoDataInit /\ [][Next]_vars

\* copies of a row
Copies(r, n) == [i \in 1..n |-> r]

\* uploads of one country: up to MaxCopies orders delivered the same day and
\* as many after 30 days, from one warehouse, carrier and state; up to
\* MaxOutliers orders each delivered after 35 days, before the shipment (-1),
\* not delivered, and delivered after 15 days from another warehouse without
\* a carrier
TransitUploads ==
    {   Copies(With(BaseRow, [Country |-> Some(c), Days_Transit |-> Some(0)]), n[1])
     \o Copies(With(BaseRow, [Country |-> Some(c), Days_Transit |-> Some(30)]), n[2])
     \o Copies(With(BaseRow, [Country |-> Some(c), Days_Transit |-> Some(35)]), n[3])
     \o Copies(With(BaseRow, [Country |-> Some(c), Days_Transit |-> Some(-1)]), n[4])
     \o Copies(With(BaseRow, [Country |-> Some(c), Days_Transit |-> NA]), n[5])
     \o Copies(With(BaseRow, [Country |-> Some(c), Days_Transit |-> Some(15),
                              Warehouse |-> Some(<<"B">>), Carrier |-> NA,
                              Province_State |-> Some(<<"TX">>)]), n[6]) :
        c \in {<<"US">>, <<"DE">>},
        n \in (0..MaxCopies) \X (0..MaxCopies) \X (0..MaxOutliers) \X (0..MaxOutliers)
               \X (0..MaxOutliers) \X (0..MaxOutliers)}

TransitInit == \E raw \in TransitUploads \ {<<>>} : Uploaded(raw)

SpecTransit == TransitInit /\ [][Next]_vars

-----------------------------------------------------------------------------
(* Properties of get_trend_data, checked under SpecTrend.                  *)

Returned == pc = "returned"

TrendRule == RuleOf(granularity)[1]

\* the rows of the input with a non-null Order_ID
Qualifying == {i \in 1..Len(df) : NotNull(df[i].Order_ID)}

\* the calendar buckets that hold at least one qualifying order
QualifyingBuckets ==
    {BinLabel(TrendRule, Get(df[i][DateCol(mode)])) : i \in Qualifying}

\* C1: in rate mode no returned bucket has a zero denominator: a calendar
\* bucket without a qualifying order is absent (never 0 or NaN), and the
\* series is as long as the number of buckets holding a qualifying order.
C1_NoZeroDenominator ==
    (Returned /\ mode = "rate") =>
        LET out == Get(res)
        IN  /\ \A k \in 1..Len(out) : out[k].Order_ID > 0 /\ ~IsNaN(out[k].Value)
            /\ Len(out) = Cardinality(QualifyingBuckets)
            /\ {out[k].Date : k \in 1..Len(out)} = QualifyingBuckets

\* a rate series that skips a calendar bucket between two populated ones
C1_Witness ==
    /\ Returned /\ mode = "rate" /\ Len(Get(res)) >= 2
    /\ Get(res)[2].Date > NextLabel(TrendRule, Get(res)[1].Date)

\* the rows of the input with an observation of the metric
Observed == {i \in 1..Len(df) : NotNull(df[i][MetricCol(mode)])}

ObservedBuckets ==
    {BinLabel(TrendRule, Get(df[i][DateCol(mode)])) : i \in Observed}

\* C2: in mean mode only buckets with at least one non-null observation are
\* returned (an empty bucket between two populated ones is dropped, not
\* returned with a NaN Value).
C2_MeanDropsEmptyBuckets ==
    (Returned /\ mode = "mean") =>
        LET out == Get(res)
        IN  /\ \A k \in 1..Len(out) : ~IsNaN(out[k].Value)
            /\ {out[k].Date : k \in 1..Len(out)} = ObservedBuckets

\* the bucket the claim assigns a timestamp to: the week STARTING on Monday l,
\* the calendar month starting on l, the calendar day l
ClaimedInBucket(g, l, ts) ==
    IF g = "Week" THEN l <= DateOf(ts) /\ DateOf(ts) < l + 7
    ELSE IF g = "Month" THEN MonthStart(DateOf(ts)) = l
    ELSE DateOf(ts) = l

ClaimedRows(l) ==
    LET Hit(r) == ClaimedInBucket(granularity, l, Get(r[DateCol(mode)]))
    IN  SelectSeq(df, Hit)

\* C3: every Date is the start of its bucket (a Monday, the first of a month,
\* the day) and the bucket aggregates the records with Date <= date(t) < next
\* bucket start.
C3_BucketStartAnchored ==
    Returned =>
        LET out == Get(res)
        IN  \A k \in 1..Len(out) :
              /\ granularity = "Week" => Weekday(out[k].Date) = 0
              /\ granularity = "Month" => MonthStart(out[k].Date) = out[k].Date
              /\ mode = "rate" =>
                    /\ out[k].Order_ID =
                          CountOfCells(Column(ClaimedRows(out[k].Date), "Order_ID"))
                    /\ out[k].metric =
                          SumOfCells(Column(ClaimedRows(out[k].Date), MetricCol(mode)))
              /\ mode = "mean" =>
                    out[k].Value =
                       MeanOfCells(Column(ClaimedRows(out[k].Date), MetricCol(mode)))

\* the arithmetic mean of the Values of rows lo..hi: their sum over their number
WindowMean(out, lo, hi) ==
    LET vals == [k \in 1..(hi - lo + 1) |-> out[lo + k - 1].Value]
    IN  IF \E k \in 1..Len(vals) : IsNaN(vals[k]) THEN NaN
        ELSE Frac(FracSum(vals)[1], FracSum(vals)[2] * Len(vals))

\* C4: at day granularity the Trend of the i-th returned bucket is the
\* arithmetic mean of the Values of returned buckets max(1, i-6)..i, and is
\* never null.
C4_TrailingSevenMean ==
    (Returned /\ granularity = "Day") =>
        LET out == Get(res)
        IN  \A i \in 1..Len(out) :
              /\ ~IsNaN(out[i].Trend)
              /\ out[i].Trend = WindowMean(out, IF i - 6 < 1 THEN 1 ELSE i - 6, i)

\* the calendar months that contain at least one record of the input (in rate
\* mode a record the rate counts: one with an Order_ID)
MonthsPresent ==
    {MonthStart(DateOf(Get(df[i][DateCol(mode)]))) :
        i \in IF mode = "rate" THEN Qualifying ELSE 1..Len(df)}

\* C5: at month granularity there is exactly one bucket per calendar month
\* that contains a record and none for any other month, its label is the
\* year-month of that month with the formatted Value, and Trend = Value
\* (Trend = Value at week granularity too).
C5_OneBucketPerMonth ==
    Returned =>
        LET out == Get(res)
        IN  /\ granularity = "Month" =>
                  /\ {out[k].Date : k \in 1..Len(out)} = MonthsPresent
                  /\ Len(out) = Cardinality(MonthsPresent)
                  /\ \A k \in 1..Len(out) :
                        out[k].Data_Label =
                           [head  |-> YearMonth(out[k].Date),
                            value |-> fmt_val(out[k].Value, mode)]
            /\ granularity \in {"Week", "Month"} =>
                  \A k \in 1..Len(out) : out[k].Trend = out[k].Value

\* C10: the buckets are returned in strictly ascending Date order and at week
\* granularity the k-th returned bucket is labelled with the ordinal k and
\* its own formatted Value, in both modes.
C10_AscendingWithOrdinals ==
    Returned =>
        LET out == Get(res)
        IN  /\ \A k \in 1..(Len(out) - 1) : out[k].Date < out[k + 1].Date
            /\ granularity = "Week" =>
                  \A k \in 1..Len(out) :
                     out[k].Data_Label =
                        [head |-> <<"WEEK", k>>, value |-> fmt_val(out[k].Value, mode)]

\* a weekly rate series of three buckets, one calendar week dropped in between
C10_Witness ==
    /\ Returned /\ mode = "rate" /\ granularity = "Week" /\ Len(Get(res)) = 3
    /\ Get(res)[3].Date > Get(res)[2].Date + 7
    /\ Get(res)[3].Data_Label.head = <<"WEEK", 3>>

-----------------------------------------------------------------------------
(* Properties of the script run.                                           *)

\* whether a record of the upload passes the date, country, carrier and
\* target filters of the run
PassesFilters(r) ==
    /\ date_range[1] <= DateOf(Get(r.Time_Audit))
    /\ DateOf(Get(r.Time_Audit)) <= date_range[2]
    /\ Get(r.Country) \in sel_ctry
    /\ sel_carrier_global = {} \/ r.Carrier \in {Some(c) : c \in sel_carrier_global}
    /\ sel_targets = {} \/ r[group_col] \in {Some(t) : t \in sel_targets}

\* the filtered set: the records (by position in the upload) that pass
FilteredSet ==
    IF Len(date_range) < 2 THEN {} ELSE {i \in 1..Len(df) : PassesFilters(df[i])}

\* the records of the filtered set that belong to group g
Members(g) == {i \in FilteredSet : df[i][group_col] = Some(g)}

InUnit(rate) == ~IsNaN(rate) /\ 0 <= rate[1] /\ rate[1] <= rate[2]

\* the summaries of modules 1 and 2 with their compliance columns
RateSummaries ==
    (IF stats_ship = NA THEN {} ELSE {<<Get(stats_ship).stats, "is_24h_Ship">>}) \cup
    (IF stats_ol = NA THEN {} ELSE {<<Get(stats_ol).stats, "is_48h_Online">>})

\* C6 as stated: in every group of the 24H and 48H summaries 0 <= Rate <= 1 and
\* the Count (in the row and in its label) is the number of records of the
\* filtered set in the group, those with a false or missing compliance value
\* included.
C6_CountIsGroupSize ==
    \A sm \in RateSummaries : \A k \in 1..Len(sm[1]) :
        /\ InUnit(sm[1][k].Rate)
        /\ sm[1][k].Count = Cardinality(Members(sm[1][k].group))
        /\ sm[1][k].Label.count = sm[1][k].Count

\* C6 as amended: the Count is the number of records of the filtered set in
\* the group whose compliance value is not missing (false included), and
\* 0 <= Rate <= 1 whenever that Count is positive.
C6_CountIsObservedSize ==
    \A sm \in RateSummaries : \A k \in 1..Len(sm[1]) :
        /\ sm[1][k].Count =
              Cardinality({i \in Members(sm[1][k].group) : NotNull(df[i][sm[2]])})
        /\ sm[1][k].Label.count = sm[1][k].Count
        /\ sm[1][k].Count > 0 => InUnit(sm[1][k].Rate)

\* a 24H group of two records, one not compliant and one without a value
C6_Witness ==
    /\ stats_ship # NA
    /\ \E k \in 1..Len(Get(stats_ship).stats) :
          LET row == Get(stats_ship).stats[k]
          IN  /\ Cardinality(Members(row.group)) = 2
              /\ row.Count = 1
              /\ row.Rate = <<0, 1>>

\* the group values with at least one record in the filtered set
GroupsPresent ==
    {Get(df[i][group_col]) : i \in {j \in FilteredSet : NotNull(df[j][group_col])}}

\* C7: a summary has exactly one row per distinct non-null group value with a
\* record in the filtered set and none for any other value: a group of the
\* upload without a record after the filters is omitted.
C7_OneRowPerPresentGroup ==
    \A sm \in RateSummaries :
        /\ {sm[1][k].group : k \in 1..Len(sm[1])} = GroupsPresent
        /\ Len(sm[1]) = Cardinality(GroupsPresent)

\* two carriers in the upload, one without a record after a country filter:
\* the summary by carrier has one row
C7_Witness ==
    /\ stats_ship # NA /\ group_col = "Carrier"
    /\ sel_ctry # Unique(df, "Country")
    /\ Cardinality(Unique(df, "Carrier")) = 2
    /\ Len(Get(stats_ship).stats) = 1

\* the records of the filtered set with a transit duration present and in
\* the valid range
ValidTransit ==
    {i \in FilteredSet : /\ NotNull(df[i].Days_Transit)
                         /\ 0 <= Get(df[i].Days_Transit)
                         /\ Get(df[i].Days_Transit) <= 30}

RECURSIVE SumDays(_)
SumDays(S) ==
    IF S = {} THEN 0
    ELSE LET i == CHOOSE j \in S : TRUE
         IN  Get(df[i].Days_Transit) + SumDays(S \ {i})

MeanDays(S) == IF S = {} THEN NaN ELSE Frac(SumDays(S), Cardinality(S))

Orders(S) == Cardinality({i \in S : NotNull(df[i].Order_ID)})

\* the valid transit records the US view keeps under its three selections
ValidTransitUS ==
    LET o == Get(otd)
    IN  {i \in ValidTransit :
            /\ o.sel_wh = <<"ALL">> \/ df[i].Warehouse = Some(o.sel_wh)
            /\ o.sel_car = {} \/ df[i].Carrier \in {Some(c) : c \in o.sel_car}
            /\ o.sel_st = {} \/ df[i].Province_State \in {Some(t) : t \in o.sel_st}}

\* C8: every figure of the transit module (ranking by warehouse, ranking by
\* carrier, US heat map, US carrier comparison) is the plain mean and the
\* order count of records whose Days_Transit is present and in [0, 30]; a
\* record outside the range or without a value is excluded, not clamped.
C8_OnlyValidTransit ==
    otd # NA =>
        LET o == Get(otd)
        IN  /\ \A k \in 1..Len(o.s_wh) :
                  LET S == {i \in ValidTransit : df[i].Warehouse = Some(o.s_wh[k].group)}
                  IN  o.s_wh[k].Val = MeanDays(S) /\ o.s_wh[k].Count = Orders(S)
            /\ \A k \in 1..Len(o.s_car) :
                  LET S == {i \in ValidTransit : df[i].Carrier = Some(o.s_car[k].group)}
                  IN  o.s_car[k].Val = MeanDays(S) /\ o.s_car[k].Count = Orders(S)
            /\ \A k \in 1..Len(o.s_cmp) :
                  LET S == {i \in ValidTransitUS : df[i].Carrier = Some(o.s_cmp[k].group)}
                  IN  o.s_cmp[k].Val = MeanDays(S) /\ o.s_cmp[k].Count = Orders(S)
            /\ \A k \in 1..Len(o.s_map) :
                  LET S == {i \in ValidTransitUS :
                               /\ df[i].Carrier = Some(o.s_map[k].group[1])
                               /\ df[i].Province_State = Some(o.s_map[k].group[2])}
                  IN  o.s_map[k].Val = MeanDays(S) /\ o.s_map[k].C = Orders(S)

\* a warehouse ranking shown while the filtered set holds an order delivered
\* after 35 days, one delivered before its shipment and one never delivered
C8_Witness ==
    /\ otd # NA /\ Get(otd).s_wh # <<>>
    /\ \E i \in FilteredSet : df[i].Days_Transit = Some(35)
    /\ \E i \in FilteredSet : df[i].Days_Transit = Some(-1)
    /\ \E i \in FilteredSet : df[i].Days_Transit = NA

\* the run has passed the filter step
Filtered == pc \notin {"filter"} /\ Len(date_range) = 2

\* the run has passed module 3
PastHandover == pc \in {"m4", "done"}

\* C9: with an empty filtered set the run shows the 'no data' warning and
\* stops without an exception and without any summary or trend; with a
\* non-empty filtered set and no record with a positive handover, or no
\* record with a valid transit, the module shows its own warning, computes
\* nothing, raises nothing, and the run goes on to its end.
C9_NoDataStates ==
    /\ (Filtered /\ FilteredSet = {}) =>
          /\ pc = "stopped" /\ error = NA
          /\ shown = <<"warning: no data">>
          /\ stats_ship = NA /\ stats_ol = NA /\ stats_ho = NA /\ otd = NA
    /\ (Filtered /\ FilteredSet # {}) => pc \notin {"stopped"}
    /\ (PastHandover /\ \A i \in FilteredSet : \/ IsNull(df[i].Hours_Handover)
                                                \/ Get(df[i].Hours_Handover) <= 0) =>
          /\ stats_ho = NA /\ error = NA
          /\ \E k \in 1..Len(shown) : shown[k] = "warning: no handover data"
    /\ (pc \in {"done", "error"} /\ FilteredSet # {} /\ "Days_Transit" \in DOMAIN df[1]
           /\ ValidTransit = {}) =>
          /\ pc = "done" /\ otd = NA /\ error = NA
          /\ \E k \in 1..Len(shown) : shown[k] = "warning: no valid transit data"

\* a date range and a country selection that each keep a record of the upload
\* and together keep none: the run has stopped with the warning
C9_Witness ==
    /\ pc = "stopped" /\ shown = <<"warning: no data">>
    /\ sel_ctry # {}
    /\ \E i \in 1..Len(df) : Get(df[i].Country) \in sel_ctry
    /\ \E i \in 1..Len(df) : /\ date_range[1] <= DateOf(Get(df[i].Time_Audit))
                              /\ DateOf(Get(df[i].Time_Audit)) <= date_range[2]

=============================================================================
